---- MODULE Spec2Model ----
(***************************************************************************)
(* RETE network nodes of pyknow (pyknow/matchers/rete/nodes.py).           *)
(*                                                                         *)
(* A network is a DAG of nodes.  The Bus turns add(fact) / remove(fact)    *)
(* into a VALID / INVALID token and hands it to its children; every node   *)
(* activation recurses synchronously into the callbacks of its children,   *)
(* so one Bus operation is one atomic step made of the whole depth-first   *)
(* cascade.                                                                *)
(*                                                                         *)
(* A binding context (a Python dict) is a set of <<key, value>> pairs with *)
(* at most one pair per key.  A memory list is a sequence; the dict        *)
(* NotNode.left_memory is a sequence of [info, count] in insertion order.  *)
(***************************************************************************)
EXTENDS Integers, Sequences, FiniteSets, TLC

\* Number of Bus operations in a run.
MaxOps == 5
\* Values a fact can carry.
MaxVal == 2
\* Number of get_activations() calls between two Bus operations.
MaxGets == 2

Kinds == {"a", "b", "ab"}

\* Working-memory facts: opaque to the nodes, inspected by one-input matchers.
Facts == [kind : Kinds, val : 1..MaxVal]

NodeIds == {"bus", "ft_left", "ft_right", "two", "terminal",
            "ft_mid", "ft_after", "terminal2", "terminal3"}

-----------------------------------------------------------------------------
(* Contexts (dict)                                                         *)

Keys(c) == {p[1] : p \in c}

\* dict.get(k, d)
Get(c, k, d) == IF k \in Keys(c) THEN (CHOOSE p \in c : p[1] = k)[2] ELSE d

\* dict.update(m): the pairs of m replace the pairs of c with the same key
Update(c, m) == {p \in c : p[1] \notin Keys(m)} \cup m

\* two contexts agree on every key both bind
Agree(c1, c2) == \A p \in c1 : \A q \in c2 : p[1] = q[1] => p[2] = q[2]

-----------------------------------------------------------------------------
(* Lists                                                                   *)

Range(s) == {s[i] : i \in 1..Len(s)}

Count(s, x) == Cardinality({i \in 1..Len(s) : s[i] = x})

\* list.remove(x) under suppress(ValueError): drop the first equal entry
RemoveFirst(s, x) ==
    IF x \notin Range(s) THEN s
    ELSE LET k == CHOOSE i \in 1..Len(s) :
                      s[i] = x /\ \A j \in 1..(i - 1) : s[j] # x
         IN  [i \in 1..(Len(s) - 1) |-> IF i < k THEN s[i] ELSE s[i + 1]]

\* d[k] = v on an insertion-ordered dict kept as a sequence of [info, count]
DictSet(d, k, v) ==
    IF \E i \in 1..Len(d) : d[i].info = k
    THEN [i \in 1..Len(d) |-> IF d[i].info = k THEN [info |-> k, count |-> v]
                                               ELSE d[i]]
    ELSE Append(d, [info |-> k, count |-> v])

\* equality of two lists as multisets
SameBag(s1, s2) == \A x \in Range(s1) \cup Range(s2) : Count(s1, x) = Count(s2, x)

-----------------------------------------------------------------------------
(* Tokens                                                                  *)

Token(tag, data, context) == [tag |-> tag, data |-> data, context |-> context]

valid(fact) == Token("VALID", {fact}, {})

invalid(fact) == Token("INVALID", {fact}, {})

is_valid(token) == token.tag = "VALID"

to_info(token) == [data |-> token.data, context |-> token.context]

to_valid_token(info) == Token("VALID", info.data, info.context)

to_invalid_token(info) == Token("INVALID", info.data, info.context)

-----------------------------------------------------------------------------
(* Matchers handed to the nodes at construction                            *)

Bool(b) == [mapping |-> FALSE, ok |-> b, map |-> {}]

Mapping(m) == [mapping |-> TRUE, ok |-> FALSE, map |-> m]

\* Python truth value of a matcher result: True, or a mapping with content
Truthy(match) == IF match.mapping THEN match.map # {} ELSE match.ok

\* One-input matchers: Fact -> bool | Mapping
matcher1(name, fact) ==
    CASE name = "a_n" -> IF fact.kind \in {"a", "ab"}
                         THEN Mapping({<<"n", fact.val>>}) ELSE Bool(FALSE)
      [] name = "b_m" -> IF fact.kind \in {"b", "ab"}
                         THEN Mapping({<<"m", fact.val>>}) ELSE Mapping({})
      [] name = "b_n" -> IF fact.kind \in {"b", "ab"}
                         THEN Mapping({<<"n", fact.val>>}) ELSE Bool(FALSE)
      [] name = "is_b" -> Bool(fact.kind \in {"b", "ab"})
      [] name = "mid"  -> IF fact.kind = "a"
                          THEN Mapping({<<"n", 1>>, <<"x", 1>>}) ELSE Mapping({})
      [] name = "any"  -> Bool(TRUE)

\* Two-input matchers: (first context, second context) -> bool
matcher2(name, c1, c2) ==
    CASE name = "eq_nm"  -> /\ "n" \in Keys(c1)
                            /\ "m" \in Keys(c2)
                            /\ Get(c1, "n", 0) = Get(c2, "m", 0)
      [] name = "same"   -> Agree(c1, c2)
      [] name = "always" -> TRUE

-----------------------------------------------------------------------------
(* Networks                                                                *)

Child(node, port) == [node |-> node, port |-> port]

Node(type, matcher, children) ==
    [type |-> type, matcher |-> matcher, children |-> children]

\* Bus -> two feature testers -> left / right port of a two-input node
\* -> terminal
TwoInput(type, right_tester, matcher) ==
    [n \in NodeIds |->
        CASE n = "bus"      -> Node("BusNode", "none",
                                    <<Child("ft_left", "in"), Child("ft_right", "in")>>)
          [] n = "ft_left"  -> Node("FeatureTesterNode", "a_n", <<Child("two", "left")>>)
          [] n = "ft_right" -> Node("FeatureTesterNode", right_tester,
                                    <<Child("two", "right")>>)
          [] n = "two"      -> Node(type, matcher, <<Child("terminal", "in")>>)
          [] n = "terminal" -> Node("ConflictSetNode", "none", <<>>)
          [] OTHER          -> Node("Unwired", "none", <<>>)]

\* Bus -> two feature testers; the left one feeds a third tester and a
\* terminal, the right one a second terminal
Testers ==
    [n \in NodeIds |->
        CASE n = "bus"       -> Node("BusNode", "none",
                                     <<Child("ft_left", "in"), Child("ft_right", "in")>>)
          [] n = "ft_left"   -> Node("FeatureTesterNode", "a_n",
                                     <<Child("ft_mid", "in"), Child("terminal", "in")>>)
          [] n = "ft_mid"    -> Node("FeatureTesterNode", "mid", <<Child("terminal2", "in")>>)
          [] n = "ft_right"  -> Node("FeatureTesterNode", "is_b", <<Child("terminal3", "in")>>)
          [] n \in {"terminal", "terminal2", "terminal3"} ->
                                Node("ConflictSetNode", "none", <<>>)
          [] OTHER           -> Node("Unwired", "none", <<>>)]

\* a join whose children are a terminal, a feature tester and a second terminal
Wiring ==
    [n \in NodeIds |->
        CASE n = "two"       -> Node("OrdinaryMatchNode", "same",
                                     <<Child("terminal", "in"), Child("ft_after", "in"),
                                       Child("terminal2", "in")>>)
          [] n = "ft_after"  -> Node("FeatureTesterNode", "any", <<Child("terminal3", "in")>>)
          [] n \in {"terminal2", "terminal3"} -> Node("ConflictSetNode", "none", <<>>)
          [] OTHER           -> TwoInput("OrdinaryMatchNode", "b_n", "same")[n]]

\* a join with two terminals as children
Fanout ==
    [n \in NodeIds |->
        CASE n = "two"       -> Node("OrdinaryMatchNode", "always",
                                     <<Child("terminal", "in"), Child("terminal2", "in")>>)
          [] n = "terminal2" -> Node("ConflictSetNode", "none", <<>>)
          [] OTHER           -> TwoInput("OrdinaryMatchNode", "b_n", "always")[n]]

\* the networks of one two-input node feeding one terminal
Scenarios == {"not_eq", "join_eq", "join_same", "join_always"}

Networks ==
    [name \in Scenarios \cup {"testers", "wiring", "fanout"} |->
        CASE name = "not_eq"      -> TwoInput("NotNode", "b_m", "eq_nm")
          [] name = "join_eq"     -> TwoInput("OrdinaryMatchNode", "b_m", "eq_nm")
          [] name = "join_same"   -> TwoInput("OrdinaryMatchNode", "b_n", "same")
          [] name = "join_always" -> TwoInput("OrdinaryMatchNode", "b_n", "always")
          [] name = "testers"     -> Testers
          [] name = "wiring"      -> Wiring
          [] name = "fanout"      -> Fanout]

-----------------------------------------------------------------------------
VARIABLES
    net,            \* the wired network (fixed after construction)
    left_memory,    \* node -> left memory
    right_memory,   \* node -> right memory
    memory,         \* node -> ConflictSetNode.memory
    calls,          \* callbacks invoked by the last Bus operation, in order
    joined,         \* tokens built by OrdinaryMatchNode in the last operation
    error,          \* the last Bus operation raised
    asserted,       \* working memory: facts added and not removed since
    dup_add,        \* some fact was added while it was already asserted
    phase,          \* shape of the history: "adding", "removing", "mixed"
    steps,          \* number of Bus operations so far
    returned        \* results of get_activations() since the last Bus operation

vars == <<net, left_memory, right_memory, memory, calls, joined, error,
          asserted, dup_add, phase, steps, returned>>

\* The part of the state a cascade reads and writes.
State(n, l, r, m) ==
    [net |-> n, left_memory |-> l, right_memory |-> r, memory |-> m,
     calls |-> <<>>, joined |-> <<>>, error |-> FALSE,
     tok |-> Token("VALID", {}, {})]

Current == State(net, left_memory, right_memory, memory)

NodeOf(st, n) == Networks[st.net][n]

-----------------------------------------------------------------------------
(* Node activations                                                        *)

RECURSIVE activate(_, _, _, _)
RECURSIVE dispatch(_, _, _, _)
RECURSIVE pairing(_, _, _, _, _, _)
RECURSIVE right_walk(_, _, _, _, _)

\* In a cascade state, tok is the token object an activation was handed, as
\* the activation leaves it: FeatureTesterNode updates its context in place.

\* the child works on the caller's token object itself
callback_NoCopy(st, child, token) == activate(st, child.node, child.port, token)

\* child.callback(token): the child is activated on the port it was wired to
\* with its own copy of the token; the caller's token is left as it was.
callback(st, child, token) ==
    [activate(st, child.node, child.port, token) EXCEPT !.tok = token]

\* the children called from the last registered to the first
dispatch_Reversed(st, n, i, token) ==
    IF st.error \/ i > Len(NodeOf(st, n).children) THEN [st EXCEPT !.tok = token]
    ELSE LET children == NodeOf(st, n).children
             r == callback(st, children[Len(children) + 1 - i], token)
         IN  dispatch(r, n, i + 1, r.tok)

\* for child in self.children: child.callback(token)  (from child i on)
dispatch(st, n, i, token) ==
    IF st.error \/ i > Len(NodeOf(st, n).children) THEN [st EXCEPT !.tok = token]
    ELSE LET r == callback(st, NodeOf(st, n).children[i], token)
         IN  dispatch(r, n, i + 1, r.tok)

\* the test of the number of facts left out: some fact of the token is tested
FeatureTesterNode_activate_NoAssert(st, n, token) ==
    LET fact  == CHOOSE f \in token.data : TRUE
        match == matcher1(NodeOf(st, n).matcher, fact)
    IN  IF ~Truthy(match) THEN st
        ELSE IF match.mapping
                /\ \E p \in match.map : Get(token.context, p[1], p[2]) # p[2]
             THEN st
        ELSE dispatch(st, n, 1,
                      IF match.mapping
                      THEN [token EXCEPT !.context = Update(@, match.map)]
                      ELSE token)

\* the test of the bindings already in the context left out
FeatureTesterNode_activate_NoConflictCheck(st, n, token) ==
    IF Cardinality(token.data) # 1 THEN [st EXCEPT !.error = TRUE]
    ELSE LET fact  == CHOOSE f \in token.data : TRUE
             match == matcher1(NodeOf(st, n).matcher, fact)
         IN  IF ~Truthy(match) THEN st
             ELSE dispatch(st, n, 1,
                           IF match.mapping
                           THEN [token EXCEPT !.context = Update(@, match.map)]
                           ELSE token)

FeatureTesterNode_activate(st, n, token) ==
    IF Cardinality(token.data) # 1 THEN [st EXCEPT !.error = TRUE]
    ELSE LET fact  == CHOOSE f \in token.data : TRUE
             match == matcher1(NodeOf(st, n).matcher, fact)
         IN  IF ~Truthy(match) THEN st
             ELSE IF match.mapping
                     /\ \E p \in match.map : Get(token.context, p[1], p[2]) # p[2]
                  THEN st
             ELSE dispatch(st, n, 1,
                           IF match.mapping
                           THEN [token EXCEPT !.context = Update(@, match.map)]
                           ELSE token)

\* the update order reversed: the triggering token's bindings win
JoinContext_TokenWins(token_context, other_context) ==
    Update(other_context, token_context)

\* newcontext = {}; newcontext.update(token.context); newcontext.update(other_context)
JoinContext(token_context, other_context) == Update(token_context, other_context)

\* the arguments self.matcher is called with for a token and a memory entry
JoinMatch(name, token_context, other_context) ==
    matcher2(name, token_context, other_context)

\* for other_data, other_context in matching_memory: ... (from entry i on)
pairing(st, n, token, side, matching, i) ==
    IF st.error \/ i > Len(matching) THEN st
    ELSE LET other == matching[i]
         IN  IF JoinMatch(NodeOf(st, n).matcher, token.context, other.context)
             THEN LET newtoken == Token(token.tag, token.data \cup other.data,
                                        JoinContext(token.context, other.context))
                      logged == [st EXCEPT !.joined =
                                    Append(@, [node |-> n, side |-> side,
                                               token |-> token, other |-> other,
                                               newtoken |-> newtoken,
                                               at |-> Len(st.calls)])]
                  IN  pairing(dispatch(logged, n, 1, newtoken),
                              n, token, side, matching, i + 1)
             ELSE pairing(st, n, token, side, matching, i + 1)

OrdinaryMatchNode_activation(st, n, token, side) ==
    LET branch == IF side = "left" THEN st.left_memory[n] ELSE st.right_memory[n]
        stored == IF is_valid(token) THEN Append(branch, to_info(token))
                                     ELSE RemoveFirst(branch, to_info(token))
        st2    == IF side = "left" THEN [st EXCEPT !.left_memory[n] = stored]
                                   ELSE [st EXCEPT !.right_memory[n] = stored]
        matching == IF side = "left" THEN st2.right_memory[n] ELSE st2.left_memory[n]
    IN  pairing(st2, n, token, side, matching, 1)

ConflictSetNode_activate(st, n, token) ==
    [st EXCEPT !.memory[n] = IF is_valid(token) THEN Append(@, to_info(token))
                                                ELSE RemoveFirst(@, to_info(token))]

\* a left token is recorded in left_memory only when it is VALID
\* records the counter for a token of either tag
NotLeftStore_AnyTag(left, token, count) ==
    DictSet(left, to_info(token), count)

NotLeftStore(left, token, count) ==
    IF is_valid(token) THEN DictSet(left, to_info(token), count) ELSE left

NotNode_activate_left(st, n, token) ==
    LET right == st.right_memory[n]
        count == Cardinality({i \in 1..Len(right) :
                     matcher2(NodeOf(st, n).matcher, token.context, right[i].context)})
        st2   == [st EXCEPT !.left_memory[n] = NotLeftStore(@, token, count)]
    IN  IF count = 0 THEN dispatch(st2, n, 1, token) ELSE st2

\* right_memory after a right activation: appended for VALID, untouched for INVALID
NotRightStore(right, token) ==
    IF is_valid(token) THEN Append(right, to_info(token)) ELSE right

\* emits whenever the updated counter is 0 or 1, whichever way it moved
Crosses_AnyEdge(newcount, inc) ==
    newcount = 0 \/ newcount = 1

\* a counter update that makes NotNode._activate_right emit a token
Crosses(newcount, inc) ==
    (newcount = 0 /\ inc = -1) \/ (newcount = 1 /\ inc = 1)

\* for left in self.left_memory: ... (from entry i on)
right_walk(st, n, token, inc, i) ==
    IF st.error \/ i > Len(st.left_memory[n]) THEN st
    ELSE LET left == st.left_memory[n][i].info
         IN  IF matcher2(NodeOf(st, n).matcher, left.context, token.context)
             THEN LET newcount == st.left_memory[n][i].count + inc
                      st2 == [st EXCEPT !.left_memory[n][i].count = newcount]
                  IN  IF Crosses(newcount, inc)
                      THEN right_walk(dispatch(st2, n, 1,
                                               IF inc = -1 THEN to_valid_token(left)
                                                           ELSE to_invalid_token(left)),
                                      n, token, inc, i + 1)
                      ELSE right_walk(st2, n, token, inc, i + 1)
             ELSE right_walk(st, n, token, inc, i + 1)

NotNode_activate_right(st, n, token) ==
    right_walk([st EXCEPT !.right_memory[n] = NotRightStore(@, token)],
               n, token, IF is_valid(token) THEN 1 ELSE -1, 1)

activate(st, n, port, token) ==
    IF st.error THEN st
    ELSE LET type == NodeOf(st, n).type
             st2  == [st EXCEPT !.calls =
                         Append(@, [node |-> n, port |-> port, token |-> token]),
                                !.tok = token]
         IN  CASE type = "FeatureTesterNode" -> FeatureTesterNode_activate(st2, n, token)
               [] type = "ConflictSetNode"   -> ConflictSetNode_activate(st2, n, token)
               [] type = "OrdinaryMatchNode" ->
                      [OrdinaryMatchNode_activation(st2, n, token, port)
                          EXCEPT !.tok = token]
               [] type = "NotNode" ->
                      IF port = "left" THEN NotNode_activate_left(st2, n, token)
                      ELSE [NotNode_activate_right(st2, n, token) EXCEPT !.tok = token]

\* BusNode.add / BusNode.remove
add(st, fact) == dispatch(st, "bus", 1, valid(fact))

remove(st, fact) == dispatch(st, "bus", 1, invalid(fact))

\* the activations listed from the last memory entry to the first
get_activations_Reversed(st, n) ==
    [i \in 1..Len(st.memory[n]) |->
        [rule |-> n, data |-> st.memory[n][Len(st.memory[n]) + 1 - i].data,
         context |-> st.memory[n][Len(st.memory[n]) + 1 - i].context]]

\* ConflictSetNode.get_activations: one (rule, tuple(data), dict(context))
\* per memory entry, in memory order
get_activations(st, n) ==
    [i \in 1..Len(st.memory[n]) |->
        [rule |-> n, data |-> st.memory[n][i].data,
         context |-> st.memory[n][i].context]]

-----------------------------------------------------------------------------
(* The program                                                             *)

Empty == [n \in NodeIds |-> <<>>]

\* every node after construction: _reset() has emptied its memories
Reset ==
    /\ left_memory = Empty
    /\ right_memory = Empty
    /\ memory = Empty
    /\ calls = <<>>
    /\ joined = <<>>
    /\ error = FALSE
    /\ asserted = {}
    /\ dup_add = FALSE
    /\ phase = "adding"
    /\ steps = 0
    /\ returned = <<>>

Init == net \in Scenarios /\ Reset

Install(st) ==
    /\ left_memory' = st.left_memory
    /\ right_memory' = st.right_memory
    /\ memory' = st.memory
    /\ calls' = st.calls
    /\ joined' = st.joined
    /\ error' = st.error
    /\ steps' = steps + 1
    /\ returned' = <<>>
    /\ UNCHANGED net

Add(fact) ==
    /\ steps < MaxOps
    /\ Install(add(Current, fact))
    /\ asserted' = asserted \cup {fact}
    /\ dup_add' = (dup_add \/ fact \in asserted)
    /\ phase' = IF phase = "adding" /\ fact \notin asserted THEN "adding" ELSE "mixed"

Remove(fact) ==
    /\ steps < MaxOps
    /\ Install(remove(Current, fact))
    /\ asserted' = asserted \ {fact}
    /\ UNCHANGED dup_add
    /\ phase' = IF phase \in {"adding", "removing"} /\ fact \in asserted
                THEN "removing" ELSE "mixed"

Next ==
    \/ \E fact \in Facts : Add(fact)
    \/ \E fact \in Facts : Remove(fact)

Spec == Init /\ [][Next]_vars

\* a caller reads the activations of a terminal
GetActivations(n) ==
    /\ Networks[net][n].type = "ConflictSetNode"
    /\ Len(returned) < MaxGets
    /\ returned' = Append(returned, [node |-> n, list |-> get_activations(Current, n)])
    /\ UNCHANGED <<net, left_memory, right_memory, memory, calls, joined, error,
                   asserted, dup_add, phase, steps>>

NextGet ==
    \/ \E fact \in Facts : Add(fact)
    \/ \E fact \in Facts : Remove(fact)
    \/ \E n \in NodeIds : GetActivations(n)

\* the feature tester network
InitTester == net = "testers" /\ Reset

SpecTester == InitTester /\ [][Next]_vars

\* the network with a feature tester below a join
InitWiring == net = "wiring" /\ Reset

SpecWiring == InitWiring /\ [][Next]_vars

\* the networks whose nodes have several children
InitOrder == net \in {"testers", "fanout"} /\ Reset

SpecOrder == InitOrder /\ [][Next]_vars

\* Bus operations and reads of the terminal of a join
InitGet == net = "join_same" /\ Reset

SpecGet == InitGet /\ [][NextGet]_vars

\* the networks whose two-input node is a NotNode
InitNot == Init /\ Networks[net]["two"].type = "NotNode"

SpecNot == InitNot /\ [][Next]_vars

\* the networks whose two-input node is an OrdinaryMatchNode
InitJoin == Init /\ Networks[net]["two"].type = "OrdinaryMatchNode"

SpecJoin == InitJoin /\ [][Next]_vars

-----------------------------------------------------------------------------
(* Vocabulary of the properties                                            *)

Terminals == {n \in NodeIds : Networks[net][n].type = "ConflictSetNode"}

NotNodes == {n \in NodeIds : Networks[net][n].type = "NotNode"}

JoinNodes == {n \in NodeIds : Networks[net][n].type = "OrdinaryMatchNode"}

\* a finished cascade, seen as the state the next operation starts from
Settled(st) == State(st.net, st.left_memory, st.right_memory, st.memory)

\* the infos with which a fact reaches a port of node n
Arrivals(n, port, fact) ==
    {to_info(c.token) : c \in {d \in Range(add(State(net, Empty, Empty, Empty), fact).calls) :
                                   d.node = n /\ d.port = port}}

\* the infos of the currently asserted facts on a port of node n
Asserted(n, port) == UNION {Arrivals(n, port, f) : f \in asserted}

NoDuplicates(s) == \A i, j \in 1..Len(s) : s[i] = s[j] => i = j

-----------------------------------------------------------------------------
(* C1 *)

\* C1: retraction symmetry.  After adding every fact of a set F of distinct
\* facts and then removing every fact of F, every Terminal memory is empty
\* and get_activations() is empty.
C1_RetractionSymmetry ==
    (phase = "removing" /\ asserted = {}) =>
        \A n \in Terminals : memory[n] = <<>> /\ get_activations(Current, n) = <<>>

-----------------------------------------------------------------------------
(* C2 *)

\* C2: round trip.  From any state reached without adding a fact twice and
\* for any fact f that is not asserted, add(f) followed by remove(f) leaves every Terminal memory with
\* the content it had before.
C2_RoundTrip ==
    ~dup_add =>
        \A f \in Facts \ asserted :
            \A n \in Terminals :
                SameBag(remove(Settled(add(Current, f)), f).memory[n], memory[n])

-----------------------------------------------------------------------------
(* C3 *)

\* C3: negation semantics.  Where a Not node feeds the Terminal, the Terminal
\* memory holds the info of a left token iff that token is asserted and no
\* asserted right token matches it.
C3_NegationSemantics ==
    \A n \in NotNodes : ~dup_add =>
        \A f \in Facts : \A L \in Arrivals(n, "left", f) :
            (L \in Range(memory["terminal"])) <=>
                /\ f \in asserted
                /\ ~\E R \in Asserted(n, "right") :
                       matcher2(Networks[net][n].matcher, L.context, R.context)

-----------------------------------------------------------------------------
(* C4 *)

\* the (left, right) pairs of asserted infos the matcher of join n accepts
MatchedPairs(n) ==
    {pr \in Asserted(n, "left") \X Asserted(n, "right") :
        matcher2(Networks[net][n].matcher, pr[1].context, pr[2].context)}

Combined(pr) == [data |-> pr[1].data \cup pr[2].data,
                 context |-> pr[1].context \cup pr[2].context]

\* C4: positive join.  Where an OrdinaryMatch node feeds the Terminal and no
\* fact was added twice, the Terminal memory holds one entry per asserted
\* (left, right) pair that satisfies the matcher, with the union of the data
\* and of the contexts, and no other entry.
C4_PositiveJoin ==
    \A n \in JoinNodes :
        ~dup_add =>
            \A X \in Range(memory["terminal"]) \cup {Combined(pr) : pr \in MatchedPairs(n)} :
                Count(memory["terminal"], X) =
                    Cardinality({pr \in MatchedPairs(n) : Combined(pr) = X})

-----------------------------------------------------------------------------
(* C5 *)

\* C5: Not-edge property.  Every left info recorded in a Not node's
\* left_memory is in the Terminal memory iff its counter is exactly 0.
C5_NotEdge ==
    \A n \in NotNodes :
        \A i \in 1..Len(left_memory[n]) :
            (left_memory[n][i].info \in Range(memory["terminal"])) <=>
                left_memory[n][i].count = 0

-----------------------------------------------------------------------------
(* C6 *)

\* C6: every counter of a Not node's left_memory is non-negative.
C6_CounterNonNegative ==
    \A n \in NotNodes :
        \A i \in 1..Len(left_memory[n]) : left_memory[n][i].count >= 0

-----------------------------------------------------------------------------
(* C7 *)

\* C7: idempotent retraction.  When no fact was added twice, remove(f) of a
\* fact that is not asserted (never added, or already removed) raises
\* nothing and changes no node memory and no Terminal's activations.
C7_IdempotentRetraction ==
    ~dup_add => \A f \in Facts \ asserted :
        LET st == remove(Current, f)
        IN  /\ ~st.error
            /\ st.left_memory = left_memory
            /\ st.right_memory = right_memory
            /\ st.memory = memory
            /\ \A n \in Terminals : get_activations(st, n) = get_activations(Current, n)

-----------------------------------------------------------------------------
(* C8 *)

\* C8: commutativity of assertion order.  From the same state, for two
\* distinct facts that are not asserted, (add f1; add f2) and (add f2; add f1)
\* leave every Terminal with the same set of activations.
C8_AddCommutes ==
    \A f1, f2 \in Facts \ asserted :
        (~dup_add /\ f1 # f2) =>
            \A n \in Terminals :
                Range(get_activations(add(Settled(add(Current, f1)), f2), n)) =
                Range(get_activations(add(Settled(add(Current, f2)), f1), n))

-----------------------------------------------------------------------------
(* C9 *)

\* C9: memory uniqueness.  When no fact was added while asserted, no memory
\* (OrdinaryMatch left and right, Not right, Terminal) holds two entries with
\* the same (data, context).
C9_MemoryUniqueness ==
    ~dup_add =>
        /\ \A n \in JoinNodes : NoDuplicates(left_memory[n]) /\ NoDuplicates(right_memory[n])
        /\ \A n \in NotNodes : NoDuplicates(right_memory[n])
        /\ \A n \in Terminals : NoDuplicates(memory[n])

-----------------------------------------------------------------------------
(* C10 *)

\* the side memory opposite to the port a join was activated on
Opposite(n, side) == IF side = "left" THEN right_memory[n] ELSE left_memory[n]

-----------------------------------------------------------------------------
(* C11 *)

TesterNodes == {n \in NodeIds : Networks[net][n].type = "FeatureTesterNode"}

\* the callbacks of child c invoked after call k of the last cascade
ChildCalls(k, c) ==
    {j \in (k + 1)..Len(calls) : calls[j].node = c.node /\ calls[j].port = c.port}

\* the result of the matcher of tester n on the one fact of token t
TesterMatch(n, t) ==
    matcher1(Networks[net][n].matcher, CHOOSE f \in t.data : TRUE)

\* the matcher said True, or gave bindings none of which contradicts t.context
TesterPasses(n, t) ==
    LET m == TesterMatch(n, t)
    IN  IF m.mapping
        THEN m.map # {} /\ \A p \in m.map : \A q \in t.context : q[1] = p[1] => q[2] = p[2]
        ELSE m.ok

\* t with its tag and data, and its context extended with the bindings
TesterForwards(n, t) ==
    Token(t.tag, t.data, t.context \cup TesterMatch(n, t).map)

\* C11: Feature Tester filter.  A tester activated with a token t of one fact
\* forwards t to every child iff its matcher returns True or a non-empty
\* mapping that contradicts no binding of t.context; the forwarded token keeps
\* the tag and data of t and has t.context extended with the mapping; when the
\* matcher returns False, an empty mapping or a conflicting mapping, no child
\* is invoked.
C11_TesterFilter ==
    \A k \in 1..Len(calls) :
        (calls[k].node \in TesterNodes /\ Cardinality(calls[k].token.data) = 1) =>
            LET n == calls[k].node
                t == calls[k].token
                children == Networks[net][n].children
            IN  \A i \in 1..Len(children) :
                    IF TesterPasses(n, t)
                    THEN /\ Cardinality(ChildCalls(k, children[i])) = 1
                         /\ \A j \in ChildCalls(k, children[i]) :
                                calls[j].token = TesterForwards(n, t)
                    ELSE ChildCalls(k, children[i]) = {}

\* an INVALID token reached a tester whose matcher gave a non-empty mapping
\* that binds a key of the token's context to another value
C11_Witness ==
    \E k \in 1..Len(calls) :
        /\ calls[k].node \in TesterNodes
        /\ calls[k].token.tag = "INVALID"
        /\ TesterMatch(calls[k].node, calls[k].token).map # {}
        /\ ~Agree(TesterMatch(calls[k].node, calls[k].token).map, calls[k].token.context)
        /\ \A j \in (k + 1)..Len(calls) : calls[j].node # "terminal2"

-----------------------------------------------------------------------------
(* C12 *)

\* every child of the Bus was called once, with token t
BusChildrenGot(t) ==
    \A i \in 1..Len(Networks[net]["bus"].children) :
        LET got == ChildCalls(0, Networks[net]["bus"].children[i])
        IN  Cardinality(got) = 1 /\ \A j \in got : calls[j].token = t

\* the children of one tester all got the token with the context it had when
\* the tester dispatched it
SiblingsGotDispatched ==
    \A k \in 1..Len(calls) :
        calls[k].node \in TesterNodes =>
            LET n == calls[k].node
                children == Networks[net][n].children
            IN  \A i \in 1..Len(children) : \A j \in ChildCalls(k, children[i]) :
                    /\ calls[j].token.context =
                           calls[k].token.context \cup TesterMatch(n, calls[k].token).map
                    /\ \A i2 \in 1..Len(children) : \A j2 \in ChildCalls(k, children[i2]) :
                           calls[j2].token = calls[j].token

\* C12: token context isolation.  Every child of the Bus receives, for
\* add(fact) or remove(fact), the token with data {fact} and an empty context,
\* and every child of a Feature Tester receives the token with the context it
\* had at dispatch: bindings added in the subtree of an earlier child are not
\* seen by a later sibling.
C12_ContextIsolation ==
    [][\A fact \in Facts :
          /\ Add(fact) =>
                (BusChildrenGot(Token("VALID", {fact}, {})) /\ SiblingsGotDispatched)'
          /\ Remove(fact) =>
                (BusChildrenGot(Token("INVALID", {fact}, {})) /\ SiblingsGotDispatched)']_vars

\* a tester bound a key in the subtree of the first child of its parent, and
\* the parent's later child and the Bus's later child were called after it
C12_Witness ==
    \E k \in 1..Len(calls) :
        /\ calls[k].node = "terminal2"
        /\ "x" \in Keys(calls[k].token.context)
        /\ \E j \in (k + 1)..Len(calls) : calls[j].node = "terminal"
        /\ \E j \in (k + 1)..Len(calls) : calls[j].node = "ft_right"

-----------------------------------------------------------------------------
(* C13 *)

\* the activations of a Feature Tester with a token of not exactly one fact
WiringErrors ==
    {k \in 1..Len(calls) :
        calls[k].node \in TesterNodes /\ Cardinality(calls[k].token.data) # 1}

\* the last activation of join n in the last cascade
LastActivation(n) ==
    CHOOSE k \in 1..Len(calls) :
        calls[k].node = n /\ \A j \in (k + 1)..Len(calls) : calls[j].node # n

\* C13: wiring error.  A Feature Tester activated with a token that does not
\* hold exactly one fact raises; none of its children is invoked and the
\* cascade is aborted: no node is activated and no join pairing is made after
\* it.  A cascade without such an activation raises nothing.
C13_WiringErrorAborts ==
    /\ error <=> WiringErrors # {}
    /\ \A k \in WiringErrors :
          /\ k = Len(calls)
          /\ \A j \in 1..Len(joined) : joined[j].at < k

\* a join with two matching memory entries built the first token, its
\* Feature Tester child raised, and the second pairing was never made
C13_Witness ==
    /\ error
    /\ \E k \in 1..Len(calls) : calls[k].node = "two"
    /\ LET k == LastActivation("two")
           opp == Opposite("two", calls[k].port)
       IN  /\ Cardinality({i \in 1..Len(opp) :
                   matcher2(Networks[net]["two"].matcher,
                            calls[k].token.context, opp[i].context)}) >= 2
           /\ Cardinality({j \in 1..Len(joined) : joined[j].at >= k}) = 1
           /\ calls[Len(calls)].node = "ft_after"
           /\ \E j \in (k + 1)..Len(calls) : calls[j].node = "terminal"

-----------------------------------------------------------------------------
(* C14 *)

RECURSIVE Sub(_)
\* the (node, port) pairs a token handed to child c can reach
Sub(c) ==
    {<<c.node, c.port>>} \cup
        UNION {Sub(Networks[net][c.node].children[i]) :
                   i \in 1..Len(Networks[net][c.node].children)}

\* the nodes that hand one token to their children in one cascade
OnceNodes == {n \in NodeIds : Networks[net][n].type \in {"BusNode", "FeatureTesterNode"}}

\* the children of n are terminals
LeafChildren(n) ==
    \A i \in 1..Len(Networks[net][n].children) :
        Networks[net][Networks[net][n].children[i].node].type = "ConflictSetNode"

\* C14: propagation order.  A Bus or Feature Tester calls its children in
\* registration order, and everything the token causes below child i happens
\* before child i+1 is called; every child of a join receives a combined token,
\* in registration order, before the join builds the token for the next memory
\* entry; and when the Bus operation is over no callback is outstanding: every
\* child of the Bus and of every join pairing has been called.
C14_PropagationOrder ==
    /\ \A n \in OnceNodes :
          LET children == Networks[net][n].children
          IN  \A i, i2 \in 1..Len(children) :
                  i < i2 =>
                      LET below  == Sub(children[i]) \ Sub(children[i2])
                          below2 == Sub(children[i2]) \ Sub(children[i])
                      IN  \A k \in {x \in 1..Len(calls) :
                                        <<calls[x].node, calls[x].port>> \in below} :
                              \A k2 \in {x \in 1..Len(calls) :
                                        <<calls[x].node, calls[x].port>> \in below2} :
                                  k < k2
    /\ \A j \in 1..Len(joined) :
          LET e == joined[j]
              children == Networks[net][e.node].children
          IN  LeafChildren(e.node) =>
                  /\ e.at + Len(children) <= Len(calls)
                  /\ \A i \in 1..Len(children) :
                        /\ calls[e.at + i].node = children[i].node
                        /\ calls[e.at + i].token = e.newtoken
                  /\ j < Len(joined) => joined[j + 1].at >= e.at + Len(children)
    /\ (calls # <<>> /\ ~error) =>
          \A i \in 1..Len(Networks[net]["bus"].children) :
              Cardinality(ChildCalls(0, Networks[net]["bus"].children[i])) = 1

\* one activation of a join with two children built two tokens
C14_Witness ==
    /\ \E j \in 1..(Len(joined) - 1) :
          /\ joined[j].token = joined[j + 1].token
          /\ joined[j].side = joined[j + 1].side
          /\ joined[j].newtoken # joined[j + 1].newtoken
    /\ Len(Networks[net]["two"].children) = 2

-----------------------------------------------------------------------------
(* C15 *)

\* every list returned since the last Bus operation has one activation per
\* entry of the terminal's memory, in memory order, and two lists returned
\* by the same terminal are equal
ReadsFaithful ==
    \A i \in 1..Len(returned) :
        LET r == returned[i]
            mem == memory[r.node]
        IN  /\ Len(r.list) = Len(mem)
            /\ \A j \in 1..Len(mem) :
                  /\ r.list[j].rule = r.node
                  /\ r.list[j].data = mem[j].data
                  /\ r.list[j].context = mem[j].context
            /\ \A i2 \in 1..Len(returned) :
                  returned[i2].node = r.node => returned[i2].list = r.list

\* C15: Terminal idempotence.  get_activations() changes no node memory, and
\* calls with no Bus operation in between return equal lists, with one
\* activation (rule, data, context) per entry of the Terminal memory, in
\* memory order.
C15_TerminalIdempotence ==
    /\ []ReadsFaithful
    /\ [][(returned' # returned /\ returned' # <<>>) =>
             UNCHANGED <<left_memory, right_memory, memory>>]_vars

\* a terminal holding two different entries was read twice
C15_Witness ==
    /\ Len(returned) = 2
    /\ returned[1].node = returned[2].node
    /\ Len(returned[1].list) >= 2
    /\ returned[1].list[1] # returned[1].list[2]

-----------------------------------------------------------------------------
(* C16 *)

\* C16: counter accuracy.  Every counter of a Not node's left_memory equals
\* the number of right_memory entries whose context matches the left info.
C16_CounterAccuracy ==
    \A n \in NotNodes :
        \A i \in 1..Len(left_memory[n]) :
            left_memory[n][i].count =
                Cardinality({k \in 1..Len(right_memory[n]) :
                    matcher2(Networks[net][n].matcher,
                             left_memory[n][i].info.context,
                             right_memory[n][k].context)})

-----------------------------------------------------------------------------
(* C20 *)

\* the facts the last Bus operation was about
Operand == IF calls = <<>> THEN {} ELSE calls[1].token.data

\* C20: no phantom re-assertion.  After a Bus operation on a fact g, no child
\* of a Not node was called with a token of another fact f whose most recent
\* Bus operation is not an add (f is not asserted): the right activation by g
\* emits nothing for the retracted left token of f.
C20_NoPhantomReassertion ==
    \A n \in NotNodes :
        \A f \in Facts \ (asserted \cup Operand) :
            \A k \in 1..Len(calls) :
                (\E i \in 1..Len(Networks[net][n].children) :
                     calls[k].node = Networks[net][n].children[i].node)
                    => calls[k].token.data # {f}

-----------------------------------------------------------------------------
(* C17 *)

\* the nodes the children list of node n calls
ChildrenOf(n) ==
    {Networks[net][n].children[i].node : i \in 1..Len(Networks[net][n].children)}

\* the positions in the call log cs at which node n was activated
ActivationsOf(cs, n) == {k \in 1..Len(cs) : cs[k].node = n}

\* the calls after position k of the log cs that hand a token of info to a
\* child of node n
EmittedFor(cs, n, k, info) ==
    {j \in (k + 1)..Len(cs) :
        cs[j].node \in ChildrenOf(n) /\ to_info(cs[j].token) = info}

\* a cascade with log cs in which Not node n was activated once, on its right
\* input, took left_memory[n] from pre to post as the edge rule says
EdgeTriggered(n, pre, post, cs) ==
    \A k \in ActivationsOf(cs, n) :
        (ActivationsOf(cs, n) = {k} /\ cs[k].port = "right") =>
            LET r   == cs[k].token
                inc == IF is_valid(r) THEN 1 ELSE -1
            IN  /\ Len(post) = Len(pre)
                /\ \A i \in 1..Len(pre) :
                      LET L  == pre[i].info
                          m  == matcher2(Networks[net][n].matcher, L.context, r.context)
                          up == m /\ inc = 1 /\ pre[i].count = 0
                          dn == m /\ inc = -1 /\ pre[i].count = 1
                          em == EmittedFor(cs, n, k, L)
                      IN  /\ post[i].info = L
                          /\ post[i].count = IF m THEN pre[i].count + inc
                                                  ELSE pre[i].count
                          /\ IF up \/ dn
                             THEN /\ \A c \in ChildrenOf(n) :
                                        Cardinality({j \in em : cs[j].node = c}) = 1
                                  /\ \A j \in em :
                                        cs[j].token.tag =
                                            IF up THEN "INVALID" ELSE "VALID"
                             ELSE em = {}

\* C17: edge-triggered emission.  On a right activation of a Not node every
\* left_memory entry L matching the right token has its counter moved by one
\* and is emitted to the children exactly when the counter goes from 0 to 1
\* (VALID right token, L emitted INVALID) or from 1 to 0 (INVALID right token,
\* L emitted VALID); any other change emits nothing, and a non-matching L
\* emits nothing and keeps its counter.
C17_EdgeTriggeredEmission ==
    [][\A n \in NotNodes : EdgeTriggered(n, left_memory[n], left_memory'[n], calls')]_vars

\* a right activation with an INVALID token took a counter from 1 to 0 and
\* handed the left entry to the Terminal as a VALID token
C17_Witness ==
    \E n \in NotNodes :
        \E k \in ActivationsOf(calls, n) :
            /\ ActivationsOf(calls, n) = {k}
            /\ calls[k].port = "right"
            /\ ~is_valid(calls[k].token)
            /\ \E i \in 1..Len(left_memory[n]) :
                  /\ left_memory[n][i].count = 0
                  /\ \E j \in EmittedFor(calls, n, k, left_memory[n][i].info) :
                        is_valid(calls[j].token)

-----------------------------------------------------------------------------
(* C18 *)

\* a cascade with log cs in which Not node n was activated once, on its left
\* input, forwarded the token and took left_memory[n] from pre to post as the
\* left activation says; right is right_memory[n] before the cascade
LeftActivated(n, pre, post, right, cs) ==
    \A k \in ActivationsOf(cs, n) :
        (ActivationsOf(cs, n) = {k} /\ cs[k].port = "left") =>
            LET t     == cs[k].token
                count == Cardinality({i \in 1..Len(right) :
                             matcher2(Networks[net][n].matcher,
                                      t.context, right[i].context)})
                sent  == {j \in (k + 1)..Len(cs) : cs[j].node \in ChildrenOf(n)}
                key   == {i \in 1..Len(post) : post[i].info = to_info(t)}
            IN  /\ IF count = 0
                   THEN /\ \A c \in ChildrenOf(n) :
                              Cardinality({j \in sent : cs[j].node = c}) = 1
                        /\ \A j \in sent : cs[j].token = t
                   ELSE sent = {}
                /\ IF is_valid(t)
                   THEN /\ Cardinality(key) = 1
                        /\ \A i \in key : post[i].count = count
                        /\ \A i \in 1..Len(pre) :
                              pre[i].info # to_info(t) =>
                                  \E j \in 1..Len(post) : post[j] = pre[i]
                        /\ \A j \in 1..Len(post) :
                              j \notin key => \E i \in 1..Len(pre) : pre[i] = post[j]
                   ELSE post = pre

\* C18: Not left activation.  A left activation of a Not node with a token t
\* of either tag hands t unchanged to every child exactly when no entry of
\* right_memory matches t.context; a VALID t records the number of matching
\* entries under t.to_info(), an INVALID t leaves left_memory as it was, and
\* right_memory is not changed.
C18_NotLeftActivation ==
    [][\A n \in NotNodes :
          /\ LeftActivated(n, left_memory[n], left_memory'[n], right_memory[n], calls')
          /\ (\A k \in ActivationsOf(calls', n) : calls'[k].port = "left")
                 => right_memory'[n] = right_memory[n]]_vars

\* an INVALID left token went through to the Terminal while its entry stayed
\* in left_memory
C18_Witness ==
    \E n \in NotNodes :
        \E k \in ActivationsOf(calls, n) :
            /\ ActivationsOf(calls, n) = {k}
            /\ calls[k].port = "left"
            /\ ~is_valid(calls[k].token)
            /\ \E i \in 1..Len(left_memory[n]) :
                  left_memory[n][i].info = to_info(calls[k].token)
            /\ \E j \in (k + 1)..Len(calls) :
                  calls[j].node \in ChildrenOf(n) /\ calls[j].token = calls[k].token

-----------------------------------------------------------------------------
(* C19 *)

\* a cascade with log cs in which join n was activated once took the memory
\* of the activated side from own to ownpost by one append (VALID) or one
\* removal of the first equal entry (INVALID), left the opposite memory opp
\* as opppost, and sent one token with the tag of the activating token per
\* entry of opp that satisfies matcher(left context, right context)
JoinActivated(n, pre_left, pre_right, post_left, post_right, cs) ==
    \A k \in ActivationsOf(cs, n) :
        ActivationsOf(cs, n) = {k} =>
            LET t       == cs[k].token
                left    == cs[k].port = "left"
                own     == IF left THEN pre_left ELSE pre_right
                ownpost == IF left THEN post_left ELSE post_right
                opp     == IF left THEN pre_right ELSE pre_left
                opppost == IF left THEN post_right ELSE post_left
                sent    == {j \in (k + 1)..Len(cs) : cs[j].node \in ChildrenOf(n)}
                matched == {i \in 1..Len(opp) :
                               IF left
                               THEN matcher2(Networks[net][n].matcher,
                                             t.context, opp[i].context)
                               ELSE matcher2(Networks[net][n].matcher,
                                             opp[i].context, t.context)}
            IN  /\ ownpost = IF is_valid(t) THEN Append(own, to_info(t))
                                            ELSE RemoveFirst(own, to_info(t))
                /\ opppost = opp
                /\ Cardinality(sent) =
                       Cardinality(matched) * Cardinality(ChildrenOf(n))
                /\ \A j \in sent : cs[j].token.tag = t.tag

\* C19: Ordinary Match activation frame.  An activation on one side with
\* token t appends t.to_info() to that side's memory (VALID) or removes the
\* first equal entry if there is one (INVALID), never changes the opposite
\* memory, and whatever the tag emits exactly one token per opposite-memory
\* entry that satisfies the matcher, each with the tag of t.
C19_JoinActivationFrame ==
    [][\A n \in JoinNodes :
          JoinActivated(n, left_memory[n], right_memory[n],
                        left_memory'[n], right_memory'[n], calls')]_vars

====
